---------------------------- MODULE Spec2Model ----------------------------
(***************************************************************************)
(* ClipPilot: the response-parsing and transcript-formatting pipeline of   *)
(* src/src/agents/clip_pilot_agent.py and the entry point src/src/main.py. *)
(*                                                                         *)
(* Text is a sequence of one-character strings, positions are 1-based (the *)
(* source's are 0-based).  A Python value is a tagged record [t, v].       *)
(***************************************************************************)
EXTENDS Integers, Sequences, FiniteSets, TLC

(***************************************************************************)
(* Bounds of the model.                                                    *)
(***************************************************************************)
MaxRecords == 3
MaxLines == 2
MaxRuns == 3
MaxPrefix == 3

(***************************************************************************)
(* Characters and text.                                                    *)
(***************************************************************************)
WS == {" ", "\n", "\t", "\r"}

Digit == {"0", "1", "2", "3", "4", "5", "6", "7", "8", "9"}

Letter ==
  {"a", "b", "c", "d", "e", "f", "g", "h", "i", "j", "k", "l", "m",
   "n", "o", "p", "q", "r", "s", "t", "u", "v", "w", "x", "y", "z",
   "A", "B", "C", "D", "E", "F", "G", "H", "I", "J", "K", "L", "M",
   "N", "O", "P", "Q", "R", "S", "T", "U", "V", "W", "X", "Y", "Z"}

Min(S) == CHOOSE x \in S : \A y \in S : x <= y

Max(S) == CHOOSE x \in S : \A y \in S : x >= y

\* s[i..j], empty when j < i (Python's s[i-1:j]).
Slice(s, i, j) == IF j < i THEN <<>> ELSE SubSeq(s, i, j)

\* The literal p occurs in s at position i.
MatchAt(s, i, p) ==
  /\ i >= 1
  /\ i + Len(p) - 1 <= Len(s)
  /\ \A k \in 1..Len(p) : s[i + k - 1] = p[k]

\* The first position >= from where p occurs in s, 0 when there is none.
Find(s, p, from) ==
  LET c == {i \in from..(Len(s) - Len(p) + 1) : MatchAt(s, i, p)}
  IN IF c = {} THEN 0 ELSE Min(c)

\* p in s (Python's substring test on str).
Contains(s, p) == \E i \in 1..(Len(s) + 1) : MatchAt(s, i, p)

RECURSIVE SkipWs(_, _)
\* The first position >= i that holds no whitespace (past the end when there
\* is none): where a greedy \s* starting at i stops.
SkipWs(s, i) == IF i <= Len(s) /\ s[i] \in WS THEN SkipWs(s, i + 1) ELSE i

\* The least p in from..q with s[p..q-1] all whitespace: a trailing \s* before q.
BackWs(s, from, q) ==
  Min({p \in from..q : \A k \in p..(q - 1) : s[k] \in WS})

\* str.strip()
Strip(s) ==
  LET a == SkipWs(s, 1)
  IN IF a > Len(s) THEN <<>>
     ELSE Slice(s, a, Max({j \in 1..Len(s) : s[j] \notin WS}))

RECURSIVE Concat(_)
\* The concatenation of a sequence of texts.
Concat(ss) == IF ss = <<>> THEN <<>> ELSE Head(ss) \o Concat(Tail(ss))

RECURSIVE Join(_, _)
\* sep.join(parts)
Join(parts, sep) ==
  IF parts = <<>> THEN <<>>
  ELSE IF Len(parts) = 1 THEN parts[1]
  ELSE parts[1] \o sep \o Join(Tail(parts), sep)

RECURSIVE SplitFrom(_, _, _)
SplitFrom(s, c, from) ==
  LET hit == {i \in from..Len(s) : s[i] = c}
  IN IF hit = {} THEN <<Slice(s, from, Len(s))>>
     ELSE <<Slice(s, from, Min(hit) - 1)>> \o SplitFrom(s, c, Min(hit) + 1)

\* s.split(c) for a one-character separator c.
Split(s, c) == SplitFrom(s, c, 1)

(***************************************************************************)
(* Python values, as json.loads builds them.                               *)
(***************************************************************************)
PyNone == [t |-> "none", v |-> 0]

PyStr(s) == [t |-> "str", v |-> s]

PyInt(n) == [t |-> "int", v |-> n]

PyBool(b) == [t |-> "bool", v |-> b]

PyList(xs) == [t |-> "list", v |-> xs]

\* A dict is its items in insertion order: a sequence of <<key, value>>.
PyDict(items) == [t |-> "dict", v |-> items]

\* bool(x)
Truthy(x) ==
  CASE x.t = "none" -> FALSE
    [] x.t = "str" -> x.v # <<>>
    [] x.t = "int" -> x.v # 0
    [] x.t = "bool" -> x.v
    [] x.t = "list" -> x.v # <<>>
    [] x.t = "dict" -> x.v # <<>>

\* hash(x) is defined: lists and dicts are unhashable.
Hashable(x) == x.t \notin {"list", "dict"}

\* a == b on hashable values: True == 1 and False == 0.
PyEq(a, b) ==
  LET num(x) == IF x.t = "bool" THEN (IF x.v THEN 1 ELSE 0) ELSE x.v
  IN IF a.t \in {"int", "bool"} /\ b.t \in {"int", "bool"}
     THEN num(a) = num(b)
     ELSE a = b

\* The position of key k in the items of a dict, 0 when it is absent.
DictIndex(items, k) ==
  LET c == {i \in 1..Len(items) : PyEq(items[i][1], k)}
  IN IF c = {} THEN 0 ELSE Min(c)

\* k in d
DictHas(items, k) == DictIndex(items, k) # 0

\* d[k], for a key that is present
DictGet(items, k) == items[DictIndex(items, k)][2]

\* DictSet as a dict that moves a key it is given again to the end (what
\* "del d[k]; d[k] = val" would do).
DictSetMoveToEnd(items, k, val) ==
  Append(SelectSeq(items, LAMBDA it : ~PyEq(it[1], k)), <<k, val>>)

\* DictSet as a dict that keeps the first value of a key (what
\* d.setdefault(k, val) would do).
DictSetKeepFirst(items, k, val) ==
  IF DictHas(items, k) THEN items ELSE Append(items, <<k, val>>)

\* d[k] = val: a present key keeps its position and takes the new value, an
\* absent key is appended.
DictSet(items, k, val) ==
  IF DictHas(items, k)
  THEN [items EXCEPT ![DictIndex(items, k)] = <<items[DictIndex(items, k)][1], val>>]
  ELSE Append(items, <<k, val>>)

(***************************************************************************)
(* json.loads, on the alphabet of the modelled responses: whitespace,      *)
(* null, true, false, integers, strings without escapes, arrays, objects.  *)
(* (The inputs hold no backslash, fraction, exponent, NaN or Infinity.)    *)
(***************************************************************************)
ParseFail == [ok |-> FALSE, val |-> PyNone, pos |-> 0]

ParseOk(val, pos) == [ok |-> TRUE, val |-> val, pos |-> pos]

CharAt(s, i) == IF i >= 1 /\ i <= Len(s) THEN s[i] ELSE ""

DigitVal(c) ==
  CASE c = "0" -> 0 [] c = "1" -> 1 [] c = "2" -> 2 [] c = "3" -> 3
    [] c = "4" -> 4 [] c = "5" -> 5 [] c = "6" -> 6 [] c = "7" -> 7
    [] c = "8" -> 8 [] c = "9" -> 9

RECURSIVE DigitsVal(_, _, _)
\* The value of the decimal digits s[i..j].
DigitsVal(s, i, j) ==
  IF j < i THEN 0 ELSE 10 * DigitsVal(s, i, j - 1) + DigitVal(s[j])

RECURSIVE StringStop(_, _)
\* The first position >= i that ends a string body: a quote, a backslash, a
\* control character, or the end of the text.
StringStop(s, i) ==
  IF i > Len(s) \/ s[i] \in {"\"", "\\", "\n", "\t", "\r"} THEN i
  ELSE StringStop(s, i + 1)

\* A string body starting at i, just after the opening quote: it ends at the
\* first quote; a backslash or a control character before it is an error.
ParseString(s, i) ==
  LET e == StringStop(s, i)
  IN IF CharAt(s, e) = "\"" THEN ParseOk(PyStr(Slice(s, i, e - 1)), e + 1)
     ELSE ParseFail

\* An integer at i: -?(0|[1-9][0-9]*)
ParseNumber(s, i) ==
  LET neg == CharAt(s, i) = "-"
      a == IF neg THEN i + 1 ELSE i
      nd == {j \in a..Len(s) : s[j] \notin Digit}
      e == IF CharAt(s, a) = "0" THEN a
           ELSE IF nd = {} THEN Len(s) ELSE Min(nd) - 1
  IN IF CharAt(s, a) \notin Digit THEN ParseFail
     ELSE ParseOk(PyInt(IF neg THEN 0 - DigitsVal(s, a, e) ELSE DigitsVal(s, a, e)), e + 1)

RECURSIVE ParseValue(_, _)
RECURSIVE ParseArrayItems(_, _, _)
RECURSIVE ParseObjectItems(_, _, _)

\* The items of an array, i at the start of an item.
ParseArrayItems(s, i, acc) ==
  LET r == ParseValue(s, i)
      j == SkipWs(s, r.pos)
  IN IF ~r.ok THEN ParseFail
     ELSE IF CharAt(s, j) = "]" THEN ParseOk(PyList(Append(acc, r.val)), j + 1)
     ELSE IF CharAt(s, j) = "," THEN ParseArrayItems(s, SkipWs(s, j + 1), Append(acc, r.val))
     ELSE ParseFail

\* The items of an object, i where the quote of a key is expected.
ParseObjectItems(s, i, acc) ==
  LET k == ParseString(s, i + 1)
      c == SkipWs(s, k.pos)
      r == ParseValue(s, SkipWs(s, c + 1))
      j == SkipWs(s, r.pos)
  IN IF CharAt(s, i) # "\"" THEN ParseFail
     ELSE IF ~k.ok THEN ParseFail
     ELSE IF CharAt(s, c) # ":" THEN ParseFail
     ELSE IF ~r.ok THEN ParseFail
     ELSE IF CharAt(s, j) = "}" THEN ParseOk(PyDict(DictSet(acc, k.val, r.val)), j + 1)
     ELSE IF CharAt(s, j) = "," THEN ParseObjectItems(s, SkipWs(s, j + 1), DictSet(acc, k.val, r.val))
     ELSE ParseFail

\* scan_once: the value that starts at i.
ParseValue(s, i) ==
  LET c == CharAt(s, i)
  IN CASE c = "\"" -> ParseString(s, i + 1)
       [] c = "{" -> IF CharAt(s, SkipWs(s, i + 1)) = "}"
                     THEN ParseOk(PyDict(<<>>), SkipWs(s, i + 1) + 1)
                     ELSE ParseObjectItems(s, SkipWs(s, i + 1), <<>>)
       [] c = "[" -> IF CharAt(s, SkipWs(s, i + 1)) = "]"
                     THEN ParseOk(PyList(<<>>), SkipWs(s, i + 1) + 1)
                     ELSE ParseArrayItems(s, SkipWs(s, i + 1), <<>>)
       [] c = "n" -> IF MatchAt(s, i, <<"n", "u", "l", "l">>)
                     THEN ParseOk(PyNone, i + 4) ELSE ParseFail
       [] c = "t" -> IF MatchAt(s, i, <<"t", "r", "u", "e">>)
                     THEN ParseOk(PyBool(TRUE), i + 4) ELSE ParseFail
       [] c = "f" -> IF MatchAt(s, i, <<"f", "a", "l", "s", "e">>)
                     THEN ParseOk(PyBool(FALSE), i + 5) ELSE ParseFail
       [] c \in Digit \cup {"-"} -> ParseNumber(s, i)
       [] OTHER -> ParseFail

\* json.loads(s): one value between optional whitespace, nothing after it.
\* ok = FALSE is the JSONDecodeError.
JsonLoads(s) ==
  LET r == ParseValue(s, SkipWs(s, 1))
  IN IF r.ok /\ SkipWs(s, r.pos) = Len(s) + 1 THEN r ELSE ParseFail

(***************************************************************************)
(* ClipPilotAgent._extract_json_from_response                              *)
(***************************************************************************)
\* The backquote character (a TLA+ string cannot hold one, so it is named).
BQ == "backquote"

Fence == <<BQ, BQ, BQ>>

JsonFence == Fence \o <<"j", "s", "o", "n">>

NoMatch == [found |-> FALSE, start |-> 0, end |-> 0, gs |-> 0, ge |-> 0]

\* A regular-expression match: the match is s[start..end-1], group 1 is
\* s[gs..ge-1].
Match(start, end, gs, ge) ==
  [found |-> TRUE, start |-> start, end |-> end, gs |-> gs, ge |-> ge]

\* The rest of a fenced pattern, \s*([\s\S]*?)\s* and the closing fence, with the opening at i and the tag ending before
\* position after: the lazy group runs from the first non-whitespace
\* position to the whitespace before the first closing fence.
FencedMatch(s, i, after) ==
  LET j == SkipWs(s, after)
      q == Find(s, Fence, j)
  IN IF q = 0 THEN NoMatch
     ELSE Match(i, q + 3, j, BackWs(s, j, q))

\* re.search of the json-tagged fence pattern of line 149.
JsonFenceSearch(s) ==
  LET i == Find(s, JsonFence, 1)
  IN IF i = 0 THEN NoMatch ELSE FencedMatch(s, i, i + 7)

\* re.search(r"\[\s*{.*}\s*\]", response, re.DOTALL): the leftmost "[" that
\* whitespace and "{" follow, up to the last "}" that whitespace and "]" follow.
BareArraySearch(s) ==
  LET opens == {i \in 1..Len(s) : s[i] = "[" /\ CharAt(s, SkipWs(s, i + 1)) = "{"}
      i == Min(opens)
      b == SkipWs(s, i + 1)
      closes == {c \in (b + 1)..Len(s) : s[c] = "}" /\ CharAt(s, SkipWs(s, c + 1)) = "]"}
      e == SkipWs(s, Max(closes) + 1) + 1
  IN IF opens = {} THEN NoMatch
     ELSE IF closes = {} THEN NoMatch
     ELSE Match(i, e, 0, 0)

\* The value json.loads gives, None when it raises JSONDecodeError (the
\* except clause of lines 160-162).
LoadsOrNone(s) == IF JsonLoads(s).ok THEN JsonLoads(s).val ELSE PyNone

\* _extract_json_from_response: the first pattern that matches decides.
ExtractJson(response) ==
  LET fm == JsonFenceSearch(response)
      am == BareArraySearch(response)
  IN IF fm.found THEN LoadsOrNone(Slice(response, fm.gs, fm.ge - 1))
     ELSE IF am.found THEN LoadsOrNone(Slice(response, am.start, am.end - 1))
     ELSE LoadsOrNone(response)

(***************************************************************************)
(* str() and repr() of a value, as an f-string renders it.                 *)
(***************************************************************************)
DigitChar(d) ==
  CASE d = 0 -> "0" [] d = 1 -> "1" [] d = 2 -> "2" [] d = 3 -> "3"
    [] d = 4 -> "4" [] d = 5 -> "5" [] d = 6 -> "6" [] d = 7 -> "7"
    [] d = 8 -> "8" [] d = 9 -> "9"

RECURSIVE NatStr(_)
NatStr(n) == IF n < 10 THEN <<DigitChar(n)>> ELSE NatStr(n \div 10) \o <<DigitChar(n % 10)>>

IntStr(n) == IF n < 0 THEN <<"-">> \o NatStr(0 - n) ELSE NatStr(n)

RECURSIVE Repr(_)
RECURSIVE ReprItems(_, _)

\* The items of a list (dict = FALSE) or dict (dict = TRUE), comma-separated.
ReprItems(xs, dict) ==
  LET one(x) == IF dict THEN Repr(x[1]) \o <<":", " ">> \o Repr(x[2]) ELSE Repr(x)
  IN IF xs = <<>> THEN <<>>
     ELSE IF Len(xs) = 1 THEN one(xs[1])
     ELSE one(xs[1]) \o <<",", " ">> \o ReprItems(Tail(xs), dict)

\* repr(x); a string of the modelled alphabet holds no double quote,
\* backslash or control character, so only the choice of quote matters.
Repr(x) ==
  CASE x.t = "none" -> <<"N", "o", "n", "e">>
    [] x.t = "bool" -> IF x.v THEN <<"T", "r", "u", "e">> ELSE <<"F", "a", "l", "s", "e">>
    [] x.t = "int" -> IntStr(x.v)
    [] x.t = "str" -> IF \E i \in 1..Len(x.v) : x.v[i] = "'"
                      THEN <<"\"">> \o x.v \o <<"\"">>
                      ELSE <<"'">> \o x.v \o <<"'">>
    [] x.t = "list" -> <<"[">> \o ReprItems(x.v, FALSE) \o <<"]">>
    [] x.t = "dict" -> <<"{">> \o ReprItems(x.v, TRUE) \o <<"}">>

\* str(x), what {x} in an f-string gives.
Str(x) == IF x.t = "str" THEN x.v ELSE Repr(x)

(***************************************************************************)
(* The operators "k in x" and "x[k]" for a string k.                       *)
(***************************************************************************)
\* "k in x" raises TypeError: x is not a container.
InRaises(x) == x.t \notin {"dict", "str", "list"}

\* k in x: a key of a dict, a substring of a str, an element of a list.
In(k, x) ==
  CASE x.t = "dict" -> DictHas(x.v, PyStr(k))
    [] x.t = "str" -> Contains(x.v, k)
    [] x.t = "list" -> \E i \in 1..Len(x.v) : x.v[i] = PyStr(k)
    [] OTHER -> FALSE

\* x[k] raises: TypeError unless x is a dict, KeyError when k is absent.
SubscriptRaises(x, k) == x.t # "dict" \/ ~DictHas(x.v, PyStr(k))

\* x[k]
Subscript(x, k) == DictGet(x.v, PyStr(k))

K_id == <<"i", "d">>

K_videoId == <<"v", "i", "d", "e", "o", "I", "d">>

K_url == <<"u", "r", "l">>

K_snippet == <<"s", "n", "i", "p", "p", "e", "t">>

K_title == <<"t", "i", "t", "l", "e">>

(***************************************************************************)
(* ClipPilotAgent._extract_video_id                                        *)
(***************************************************************************)
WatchPrefix ==
  <<"y", "o", "u", "t", "u", "b", "e", ".", "c", "o", "m", "/",
    "w", "a", "t", "c", "h", "?", "v", "=">>

ShortPrefix == <<"y", "o", "u", "t", "u", ".", "b", "e", "/">>

\* re.search(r"(?:youtube\.com/watch\?v=|youtu\.be/)([^&\s]+)", url): the
\* leftmost prefix that at least one character other than "&" and whitespace
\* follows; group 1 is the longest run of such characters.
UrlSearch(url) ==
  LET idc(j) == j <= Len(url) /\ url[j] \notin (WS \cup {"&"})
      plen(i) == IF MatchAt(url, i, WatchPrefix) THEN Len(WatchPrefix)
                 ELSE IF MatchAt(url, i, ShortPrefix) THEN Len(ShortPrefix)
                 ELSE 0
      starts == {i \in 1..Len(url) : plen(i) > 0 /\ idc(i + plen(i))}
      i == Min(starts)
      g == i + plen(i)
      stop == {j \in g..Len(url) : ~idc(j)}
      e == IF stop = {} THEN Len(url) + 1 ELSE Min(stop)
  IN IF starts = {} THEN NoMatch ELSE Match(i, e, g, e)

\* Lines 229-236: the id captured from the url field, else None.  A url that
\* is not a str makes re.search raise TypeError, which line 237 turns into None.
IdFromUrl(video) ==
  IF ~In(K_url, video) THEN PyNone
  ELSE IF SubscriptRaises(video, K_url) THEN PyNone
  ELSE IF Subscript(video, K_url).t # "str" THEN PyNone
  ELSE LET m == UrlSearch(Subscript(video, K_url).v)
       IN IF m.found THEN PyStr(Slice(Subscript(video, K_url).v, m.gs, m.ge - 1))
          ELSE PyNone

\* _extract_video_id; every exception gives None (lines 237-239).
ExtractVideoId(video) ==
  IF InRaises(video) THEN PyNone
  ELSE IF In(K_id, video)
  THEN IF SubscriptRaises(video, K_id) THEN PyNone
       ELSE IF /\ Subscript(video, K_id).t = "dict"
               /\ DictHas(Subscript(video, K_id).v, PyStr(K_videoId))
       THEN DictGet(Subscript(video, K_id).v, PyStr(K_videoId))
       ELSE IF Subscript(video, K_id).t = "str" THEN Subscript(video, K_id)
       ELSE IdFromUrl(video)
  ELSE IF In(K_videoId, video)
  THEN IF SubscriptRaises(video, K_videoId) THEN PyNone
       ELSE Subscript(video, K_videoId)
  ELSE IdFromUrl(video)

(***************************************************************************)
(* ClipPilotAgent._extract_video_title                                     *)
(***************************************************************************)
UnknownVideo ==
  PyStr(<<"U", "n", "k", "n", "o", "w", "n", " ", "V", "i", "d", "e", "o">>)

VideoLabel == <<"V", "i", "d", "e", "o", " ">>

\* _extract_video_title; every exception gives "Unknown Video" (250-252).
ExtractVideoTitle(video) ==
  IF InRaises(video) THEN UnknownVideo
  ELSE IF In(K_snippet, video) /\ SubscriptRaises(video, K_snippet) THEN UnknownVideo
  ELSE IF In(K_snippet, video) /\ InRaises(Subscript(video, K_snippet)) THEN UnknownVideo
  ELSE IF In(K_snippet, video) /\ In(K_title, Subscript(video, K_snippet))
  THEN IF SubscriptRaises(Subscript(video, K_snippet), K_title) THEN UnknownVideo
       ELSE Subscript(Subscript(video, K_snippet), K_title)
  ELSE IF In(K_title, video)
  THEN IF SubscriptRaises(video, K_title) THEN UnknownVideo
       ELSE Subscript(video, K_title)
  ELSE PyStr(VideoLabel \o Str(ExtractVideoId(video)))

(***************************************************************************)
(* ClipPilotAgent._extract_transcript_from_response                        *)
(***************************************************************************)
TagText == <<"t", "e", "x", "t">>

TagPlain == <<"p", "l", "a", "i", "n">>

\* re.search of the fence pattern of line 168: a fence, optionally tagged
\* text or plain, up to the next fence.
TranscriptFenceSearch(s) ==
  LET i == Find(s, Fence, 1)
      after == IF MatchAt(s, i + 3, TagText) THEN i + 3 + Len(TagText)
               ELSE IF MatchAt(s, i + 3, TagPlain) THEN i + 3 + Len(TagPlain)
               ELSE i + 3
  IN IF i = 0 THEN NoMatch ELSE FencedMatch(s, i, after)

\* The conversational lead-ins of line 177.
LeadIns ==
  {<<"I", " ">>,
   <<"H", "e", "r", "e">>,
   <<"T", "h", "e", " ", "t", "r", "a", "n", "s", "c", "r", "i", "p", "t">>,
   <<"T", "h", "i", "s", " ", "i", "s">>,
   <<"U", "s", "i", "n", "g">>}

\* line.startswith(LeadIns)
IsLeadIn(line) == \E p \in LeadIns : MatchAt(line, 1, p)

\* The lines that are kept (lines 174-180).
ContentLines(lines) == SelectSeq(lines, LAMBDA l : ~IsLeadIn(l))

\* _extract_transcript_from_response
ExtractTranscript(response) ==
  LET m == TranscriptFenceSearch(response)
  IN IF m.found THEN Strip(Slice(response, m.gs, m.ge - 1))
     ELSE Strip(Join(ContentLines(Split(response, "\n")), <<"\n">>))

(***************************************************************************)
(* ClipPilotAgent._format_transcript_as_markdown                           *)
(***************************************************************************)
\* \d{1,2}:?\d{2}:?\d{2} at position a: the positions just after it, over the
\* ways to take one or two leading digits and each optional colon.
TimeBodyEnds(line, a) ==
  LET digits(i, n) == \A k \in i..(i + n - 1) : CharAt(line, k) \in Digit
      colon(i, c) == c = 0 \/ CharAt(line, i) = ":"
  IN {a + n + c1 + 2 + c2 + 2 : <<n, c1, c2>> \in
        {w \in {1, 2} \X {0, 1} \X {0, 1} :
           /\ digits(a, w[1])
           /\ colon(a + w[1], w[2])
           /\ digits(a + w[1] + w[2], 2)
           /\ colon(a + w[1] + w[2] + 2, w[3])
           /\ digits(a + w[1] + w[2] + 2 + w[3], 2)
           /\ CharAt(line, a + w[1] + w[2] + 2 + w[3] + 2) \in {"]", ")"}}}

\* re.search(r"[\[\(](\d{1,2}:?\d{2}:?\d{2})[\]\)]", line)
TimestampSearch(line) ==
  LET starts == {i \in 1..Len(line) :
                   line[i] \in {"[", "("} /\ TimeBodyEnds(line, i + 1) # {}}
      i == Min(starts)
      e == Min(TimeBodyEnds(line, i + 1))
  IN IF starts = {} THEN NoMatch ELSE Match(i, e + 1, i + 1, e)

\* re.search(r"^([A-Za-z\s]+):", line): the longest run of letters and
\* whitespace at the start of the line, not empty, and a colon after it.
SpeakerSearch(line) ==
  LET other == {j \in 1..Len(line) : line[j] \notin (Letter \cup WS)}
      k == IF other = {} THEN Len(line) ELSE Min(other) - 1
  IN IF k >= 1 /\ CharAt(line, k + 1) = ":" THEN Match(1, k + 2, 1, k + 1)
     ELSE NoMatch

\* SpeakerWins with the comparison of line 202 turned round.
SpeakerWinsReversed(sp, ts) == sp.found /\ (~ts.found \/ sp.start > ts.start)

\* The condition of lines 201-203: the speaker branch is taken.
SpeakerWins(sp, ts) == sp.found /\ (~ts.found \/ sp.start < ts.start)

SpeakerHeadingOpen == <<"\n", "#", "#", "#", " ">>

\* What one line appends to markdown_lines (lines 197-214).
FormatLine(line) ==
  LET ts == TimestampSearch(line)
      sp == SpeakerSearch(line)
      speaker == Strip(Slice(line, sp.gs, sp.ge - 1))
      said == Strip(Slice(line, sp.end, Len(line)))
      content == Strip(Slice(line, ts.end, Len(line)))
  IN IF SpeakerWins(sp, ts)
     THEN <<SpeakerHeadingOpen \o speaker \o <<"\n">>>>
          \o (IF said # <<>> THEN <<said>> ELSE <<>>)
     ELSE IF ts.found
     THEN <<(<<"*", "*", "[">> \o Slice(line, ts.gs, ts.ge - 1)
             \o <<"]", "*", "*", " ">> \o content)>>
     ELSE <<Strip(line)>>

HeadingOpen ==
  <<"#", " ", "T", "r", "a", "n", "s", "c", "r", "i", "p", "t", " ",
    "f", "o", "r", " ", "V", "i", "d", "e", "o", " ">>

\* Line 193: the heading, which ends with a newline of its own.
Heading(video_id) == HeadingOpen \o Str(video_id) \o <<"\n">>

RECURSIVE FormatLines(_)
\* What the loop of lines 196-214 appends for a sequence of lines.
FormatLines(lines) ==
  IF lines = <<>> THEN <<>> ELSE FormatLine(Head(lines)) \o FormatLines(Tail(lines))

\* _format_transcript_as_markdown
FormatTranscript(transcript, video_id) ==
  IF transcript = <<>> THEN <<>>
  ELSE Join(<<Heading(video_id)>> \o FormatLines(Split(transcript, "\n")), <<"\n">>)

(***************************************************************************)
(* The oracle, mcp_agent.run(prompt): free text chosen by the environment. *)
(* The search responses are JSON texts of record lists, bare, after prose, *)
(* or in a json-tagged fence, and texts that hold no JSON.                 *)
(***************************************************************************)
RECURSIVE Dumps(_)
RECURSIVE DumpsItems(_, _)

DumpsItems(xs, dict) ==
  LET one(x) == IF dict THEN Dumps(x[1]) \o <<":", " ">> \o Dumps(x[2]) ELSE Dumps(x)
  IN IF xs = <<>> THEN <<>>
     ELSE IF Len(xs) = 1 THEN one(xs[1])
     ELSE one(xs[1]) \o <<",", " ">> \o DumpsItems(Tail(xs), dict)

\* The JSON text of a value, as a tool server serialises it.
Dumps(x) ==
  CASE x.t = "none" -> <<"n", "u", "l", "l">>
    [] x.t = "bool" -> IF x.v THEN <<"t", "r", "u", "e">> ELSE <<"f", "a", "l", "s", "e">>
    [] x.t = "int" -> IntStr(x.v)
    [] x.t = "str" -> <<"\"">> \o x.v \o <<"\"">>
    [] x.t = "list" -> <<"[">> \o DumpsItems(x.v, FALSE) \o <<"]">>
    [] x.t = "dict" -> <<"{">> \o DumpsItems(x.v, TRUE) \o <<"}">>

\* A record with the given fields: a sequence of <<key text, value>>.
Record(fields) ==
  PyDict([i \in 1..Len(fields) |-> <<PyStr(fields[i][1]), fields[i][2]>>])

\* The record shapes the search returns: an id that is a string, nested, or
\* of another type beside a top-level videoId, or in a url; a title that is
\* flat, in a snippet, shared by two videos, absent, a list, or empty.
SearchRecords ==
  {Record(<<<<K_id, PyStr(<<"a">>)>>, <<K_title, PyStr(<<"T">>)>>>>),
   Record(<<<<K_id, PyDict(<<<<PyStr(K_videoId), PyStr(<<"b">>)>>>>)>>,
            <<K_snippet, PyDict(<<<<PyStr(K_title), PyStr(<<"U">>)>>>>)>>>>),
   Record(<<<<K_id, PyStr(<<"c">>)>>, <<K_title, PyStr(<<"T">>)>>>>),
   Record(<<<<K_id, PyInt(5)>>, <<K_videoId, PyStr(<<"d">>)>>>>),
   Record(<<<<K_url, PyStr(ShortPrefix \o <<"e">>)>>>>),
   Record(<<<<K_id, PyStr(<<"f">>)>>, <<K_title, PyList(<<>>)>>>>),
   Record(<<<<K_id, PyStr(<<"g">>)>>, <<K_title, PyStr(<<>>)>>>>)}

\* The result lists of at most MaxRecords records, each video once (a
\* video id is unique within one search result).
RecordLists ==
  {l \in UNION {[1..n -> SearchRecords] : n \in 0..MaxRecords} :
     \A i, j \in 1..Len(l) : i # j => l[i] # l[j]}

FenceOpenJson == JsonFence \o <<"\n">>

FenceClose == <<"\n">> \o Fence

Prose == <<"H", "e", "r", "e", ":", " ">>

\* What the oracle may answer to the search prompt.
SearchResponses ==
  {Dumps(PyList(l)) : l \in RecordLists}
    \cup {Prose \o Dumps(PyList(l)) : l \in RecordLists}
    \cup {FenceOpenJson \o Dumps(PyList(l)) \o FenceClose : l \in RecordLists}
    \cup {<<"N", "o", "n", "e", ".">>, Dumps(Record(<<<<K_id, PyStr(<<"a">>)>>>>))}

\* What the oracle may answer to the transcript prompt: a lead-in line and
\* the transcript after it, or an empty fenced block (no transcript).
TranscriptResponses ==
  {<<"H", "e", "r", "e", ":", "\n", "A", ":", " ", "(", "0", ":", "0", "0", ":", "0", "1", ")", " ", "b">>,
   Fence \o FenceClose}

(***************************************************************************)
(* The inputs of the specifications of the single functions.               *)
(***************************************************************************)
\* A field that a record does not have.
Absent == [t |-> "absent", v |-> 0]

\* The record with the fields of the sequence whose value is not Absent.
RecordOf(fields) == Record(SelectSeq(fields, LAMBDA f : f[2] # Absent))

IdValues ==
  {Absent, PyStr(<<"a">>), PyStr(<<>>), PyInt(5), PyNone, PyDict(<<>>),
   PyDict(<<<<PyStr(K_videoId), PyStr(<<"b">>)>>>>)}

VideoIdValues == {Absent, PyStr(<<"c">>)}

UrlValues ==
  {Absent, PyStr(ShortPrefix \o <<"e">>), PyStr(<<"h", "t", "t", "p", ":", "/", "/", "x">>),
   PyInt(7)}

SnippetValues ==
  {Absent, PyDict(<<<<PyStr(K_title), PyStr(<<"S">>)>>>>), PyDict(<<>>),
   PyStr(<<"a", " ">> \o K_title), PyNone}

TitleValues == {Absent, PyStr(<<"T">>), PyStr(<<>>), PyInt(9), PyList(<<>>)}

\* The records handed to _extract_video_id and _extract_video_title: every
\* combination of the field values above, and three values that are no mapping.
AccessorRecords ==
  {RecordOf(<<<<K_id, f[1]>>, <<K_videoId, f[2]>>, <<K_url, f[3]>>,
              <<K_snippet, f[4]>>, <<K_title, f[5]>>>>) :
     f \in IdValues \X VideoIdValues \X UrlValues \X SnippetValues \X TitleValues}
    \cup {PyInt(7), PyStr(K_id), PyList(<<PyStr(K_title)>>)}

ValidArray == Dumps(PyList(<<Record(<<<<K_id, PyStr(<<"a">>)>>>>)>>))

OtherArray == Dumps(PyList(<<Record(<<<<K_id, PyStr(<<"z">>)>>>>), Record(<<>>)>>))

BrokenArray == <<"[", "{", "\"", "i", "d", "\"", ":", " ", "}", "]">>

\* The responses handed to _extract_json_from_response: optional prose, an
\* optional json-tagged fence (closed around valid or malformed JSON, or left
\* open), and an optional tail (a bare array, valid or malformed, a scalar,
\* or prose).
JsonResponses ==
  {pre \o block \o post :
     pre \in {<<>>, Prose},
     block \in {<<>>,
                FenceOpenJson \o ValidArray \o FenceClose,
                FenceOpenJson \o BrokenArray \o FenceClose,
                FenceOpenJson \o <<"o", "o", "p", "s">> \o FenceClose,
                JsonFence \o FenceClose,
                FenceOpenJson \o ValidArray},
     post \in {<<>>, OtherArray, <<" ">> \o OtherArray, BrokenArray, <<"7">>,
               <<"\n", "d", "o", "n", "e">>}}

\* The lines of the transcripts handed to _format_transcript_as_markdown.
TranscriptLines ==
  {<<"[", "0", "1", ":", "0", "2", "]", " ", "t", "e", "x", "t">>,
   <<"[", "1", ":", "0", "2", ":", "0", "3", "]", " ", "h", "i">>,
   <<"(", "0", "0", ":", "0", "1", ":", "0", "2", ")", " ", "w", "o">>,
   <<"x", " ", "[", "0", "1", "0", "2", "0", "3", "]">>,
   <<"A", "l", "i", "c", "e", ":", " ", "h", "e", "y">>,
   <<"B", " ", "o", "b", " ", ":", "(", "0", ":", "0", "0", ":", "0", "5", ")", " ", "x">>,
   <<"C", "y", ":">>,
   <<" ", "p", "l", "a", "i", "n", " ">>,
   <<"[", "1", ":", "2", "]", " ", "q">>,
   <<>>}

\* The transcripts of at most MaxLines lines.
Transcripts ==
  {Join(ls, <<"\n">>) : ls \in UNION {[1..n -> TranscriptLines] : n \in 0..MaxLines}}

\* Lines for the classification of lines 197-214: a start of at most
\* MaxPrefix characters that may hold a label, a colon or an opening bracket,
\* then a time token or the end of one, then the rest of the line.
PrefixChars == {"A", " ", ":", "[", "1"}

Prefixes == UNION {[1..n -> PrefixChars] : n \in 0..MaxPrefix}

TimeTokens ==
  {<<>>,
   <<"[", "0", "1", "0", "2", "0", "3", "]">>,
   <<"(", "1", ":", "0", "2", ":", "0", "3", ")">>,
   <<"0", "2", "0", "3", "]">>}

Suffixes == {<<>>, <<" ", "h", "i">>, <<"B", ":", " ", "x">>}

TieBreakLines ==
  {pre \o tok \o post : pre \in Prefixes, tok \in TimeTokens, post \in Suffixes}

(***************************************************************************)
(* State.                                                                  *)
(***************************************************************************)
VARIABLES
  \* search_and_get_transcripts: the control point, its argument, the calls
  \* issued to the oracle and the number not yet returned, its locals, and a
  \* history of what each record of the loop did.
  pc, max_results, oracle_log, in_flight, videos, idx, video_id, video_title,
  results, hist,
  \* _extract_json_from_response: the response and the value returned.
  j_pc, j_response, j_result,
  \* _extract_video_id and _extract_video_title: the record and the results.
  r_pc, r_video, r_id, r_title,
  \* _format_transcript_as_markdown: its arguments, its locals, its result.
  f_pc, f_transcript, f_video_id, f_lines, f_line, current_speaker,
  markdown_lines, f_output,
  \* main: the control point, the number of runs started, the agents that
  \* create returned, the agents close was invoked on, whether start raised,
  \* and how each run ended.
  main_pc, run, agents, close_log, start_raised, exits

pipelineVars ==
  <<pc, max_results, oracle_log, in_flight, videos, idx, video_id, video_title,
    results, hist>>

jsonVars == <<j_pc, j_response, j_result>>

recordVars == <<r_pc, r_video, r_id, r_title>>

formatVars ==
  <<f_pc, f_transcript, f_video_id, f_lines, f_line, current_speaker,
    markdown_lines, f_output>>

mainVars == <<main_pc, run, agents, close_log, start_raised, exits>>

vars == <<pipelineVars, jsonVars, recordVars, formatVars, mainVars>>

\* A part of the state that a specification does not use.
PipelineOff ==
  /\ pc = "off" /\ max_results = 0 /\ oracle_log = <<>> /\ in_flight = 0
  /\ videos = <<>> /\ idx = 0 /\ video_id = PyNone /\ video_title = PyNone
  /\ results = <<>> /\ hist = <<>>

JsonOff == j_pc = "off" /\ j_response = <<>> /\ j_result = PyNone

RecordOff == r_pc = "off" /\ r_video = PyNone /\ r_id = PyNone /\ r_title = PyNone

FormatOff ==
  /\ f_pc = "off" /\ f_transcript = <<>> /\ f_video_id = PyNone /\ f_lines = <<>>
  /\ f_line = 0 /\ current_speaker = PyNone /\ markdown_lines = <<>>
  /\ f_output = <<>>

MainOff ==
  /\ main_pc = "off" /\ run = 0 /\ agents = <<>> /\ close_log = <<>>
  /\ start_raised = FALSE /\ exits = <<>>

(***************************************************************************)
(* search_videos, get_transcript, search_and_get_transcripts               *)
(***************************************************************************)
SearchTool == "youtube.videos.searchVideos"

TranscriptTool == "youtube.transcripts.getTranscript"

\* The prompt of a call, reduced to the tool it names and the argument it
\* renders into the text (the limit, the video id).
Prompt(tool, arg) == [tool |-> tool, arg |-> arg]

\* search_videos after the oracle has answered (lines 69-75): the parsed
\* list, or the empty list when nothing parsed or the value is no list.
SearchVideos(response) ==
  LET parsed == ExtractJson(response)
  IN IF ~Truthy(parsed) \/ parsed.t # "list" THEN <<>> ELSE parsed.v

\* get_transcript after the oracle has answered (lines 97-105).
GetTranscript(response, id) ==
  LET raw == ExtractTranscript(response)
  IN IF raw = <<>> THEN <<>> ELSE FormatTranscript(raw, id)

\* The entry of hist for one record of the loop.
Done(id, title, called, text) ==
  [id |-> id, title |-> title, called |-> called, transcript |-> text]

\* The max_results the caller passes: 1, and the defaults of lines 108 and 51.
MaxResultsArgs == {1, 3, 5}

PipelineInit ==
  /\ pc = "start"
  /\ max_results \in MaxResultsArgs
  /\ oracle_log = <<>>
  /\ in_flight = 0
  /\ videos = <<>>
  /\ idx = 0
  /\ video_id = PyNone
  /\ video_title = PyNone
  /\ results = <<>>
  /\ hist = <<>>

\* Lines 126, 63-67: the search prompt is sent.
CallSearch ==
  /\ pc = "start"
  /\ oracle_log' = Append(oracle_log, Prompt(SearchTool, IntStr(max_results)))
  /\ in_flight' = in_flight + 1
  /\ pc' = "search"
  /\ UNCHANGED <<max_results, videos, idx, video_id, video_title, results, hist>>
  /\ UNCHANGED <<jsonVars, recordVars, formatVars, mainVars>>

\* Lines 67-75, 126-131: the oracle answers; no videos returns the empty map.
SearchReturn ==
  /\ pc = "search"
  /\ \E response \in SearchResponses :
       /\ videos' = SearchVideos(response)
       /\ pc' = IF SearchVideos(response) = <<>> THEN "returned" ELSE "loop"
  /\ in_flight' = in_flight - 1
  /\ results' = <<>>
  /\ UNCHANGED <<max_results, oracle_log, idx, video_id, video_title, hist>>
  /\ UNCHANGED <<jsonVars, recordVars, formatVars, mainVars>>

\* Lines 132-138, 90-95: the next record; without an id it is skipped, with
\* one its title is taken and the transcript prompt is sent.
NextVideo ==
  /\ pc = "loop"
  /\ idx < Len(videos)
  /\ video_id' = ExtractVideoId(videos[idx + 1])
  /\ IF ~Truthy(ExtractVideoId(videos[idx + 1]))
     THEN /\ idx' = idx + 1
          /\ hist' = Append(hist, Done(video_id', PyNone, FALSE, <<>>))
          /\ UNCHANGED <<pc, video_title, oracle_log, in_flight>>
     ELSE /\ video_title' = ExtractVideoTitle(videos[idx + 1])
          /\ oracle_log' = Append(oracle_log, Prompt(TranscriptTool, Str(video_id')))
          /\ in_flight' = in_flight + 1
          /\ pc' = "transcript"
          /\ UNCHANGED <<idx, hist>>
  /\ UNCHANGED <<max_results, videos, results>>
  /\ UNCHANGED <<jsonVars, recordVars, formatVars, mainVars>>

\* Lines 95-105, 140-141: the oracle answers; a non-empty transcript is
\* stored under the title.  A title that cannot be hashed makes the
\* assignment raise TypeError, which nothing catches.
TranscriptReturn ==
  /\ pc = "transcript"
  /\ \E response \in TranscriptResponses :
       LET text == GetTranscript(response, video_id)
       IN /\ hist' = Append(hist, Done(video_id, video_title, TRUE, text))
          /\ IF text # <<>> /\ ~Hashable(video_title)
             THEN /\ pc' = "raised"
                  /\ UNCHANGED <<results, idx>>
             ELSE /\ results' = IF text # <<>>
                                THEN DictSet(results, video_title, text)
                                ELSE results
                  /\ idx' = idx + 1
                  /\ pc' = "loop"
  /\ in_flight' = in_flight - 1
  /\ UNCHANGED <<max_results, oracle_log, videos, video_id, video_title>>
  /\ UNCHANGED <<jsonVars, recordVars, formatVars, mainVars>>

\* Lines 143-144: the loop is over and the map is returned.
Return ==
  /\ pc = "loop"
  /\ idx = Len(videos)
  /\ pc' = "returned"
  /\ UNCHANGED <<max_results, oracle_log, in_flight, videos, idx, video_id,
                 video_title, results, hist>>
  /\ UNCHANGED <<jsonVars, recordVars, formatVars, mainVars>>

Init == PipelineInit /\ JsonOff /\ RecordOff /\ FormatOff /\ MainOff

Next == CallSearch \/ SearchReturn \/ NextVideo \/ TranscriptReturn \/ Return

\* search_and_get_transcripts against an oracle that answers with any of
\* SearchResponses and TranscriptResponses.
Spec == Init /\ [][Next]_vars

(***************************************************************************)
(* _extract_json_from_response on its own.                                 *)
(***************************************************************************)
JsonInit == j_pc = "start" /\ j_response \in JsonResponses /\ j_result = PyNone

ExtractJsonCall ==
  /\ j_pc = "start"
  /\ j_result' = ExtractJson(j_response)
  /\ j_pc' = "done"
  /\ UNCHANGED <<j_response, pipelineVars, recordVars, formatVars, mainVars>>

InitJson == JsonInit /\ PipelineOff /\ RecordOff /\ FormatOff /\ MainOff

NextJson == ExtractJsonCall

SpecJson == InitJson /\ [][NextJson]_vars

(***************************************************************************)
(* _extract_video_id and _extract_video_title on their own.                *)
(***************************************************************************)
RecordInit ==
  r_pc = "start" /\ r_video \in AccessorRecords /\ r_id = PyNone /\ r_title = PyNone

ExtractVideoIdCall ==
  /\ r_pc = "start"
  /\ r_id' = ExtractVideoId(r_video)
  /\ r_pc' = "id"
  /\ UNCHANGED <<r_video, r_title, pipelineVars, jsonVars, formatVars, mainVars>>

ExtractVideoTitleCall ==
  /\ r_pc = "id"
  /\ r_title' = ExtractVideoTitle(r_video)
  /\ r_pc' = "done"
  /\ UNCHANGED <<r_video, r_id, pipelineVars, jsonVars, formatVars, mainVars>>

InitRecord == RecordInit /\ PipelineOff /\ JsonOff /\ FormatOff /\ MainOff

NextRecord == ExtractVideoIdCall \/ ExtractVideoTitleCall

SpecRecord == InitRecord /\ [][NextRecord]_vars

(***************************************************************************)
(* _format_transcript_as_markdown on its own, one step per line.           *)
(***************************************************************************)
FormatInit ==
  /\ f_pc = "start"
  /\ f_transcript \in Transcripts
  /\ f_video_id = PyStr(<<"v", "1">>)
  /\ f_lines = <<>>
  /\ f_line = 0
  /\ current_speaker = PyNone
  /\ markdown_lines = <<>>
  /\ f_output = <<>>

\* Lines 189-195: an empty transcript returns the empty string; otherwise
\* the lines are split and the heading is the first entry.
FormatEnter ==
  /\ f_pc = "start"
  /\ IF f_transcript = <<>>
     THEN /\ f_pc' = "done"
          /\ UNCHANGED <<f_lines, markdown_lines>>
     ELSE /\ f_lines' = Split(f_transcript, "\n")
          /\ markdown_lines' = <<Heading(f_video_id)>>
          /\ f_pc' = "loop"
  /\ UNCHANGED <<f_transcript, f_video_id, f_line, current_speaker, f_output>>
  /\ UNCHANGED <<pipelineVars, jsonVars, recordVars, mainVars>>

\* Lines 196-214: one line of the loop.
FormatStep ==
  /\ f_pc = "loop"
  /\ f_line < Len(f_lines)
  /\ LET line == f_lines[f_line + 1]
         sp == SpeakerSearch(line)
     IN /\ markdown_lines' = markdown_lines \o FormatLine(line)
        /\ current_speaker' =
             IF SpeakerWins(sp, TimestampSearch(line))
             THEN PyStr(Strip(Slice(line, sp.gs, sp.ge - 1)))
             ELSE current_speaker
  /\ f_line' = f_line + 1
  /\ UNCHANGED <<f_pc, f_transcript, f_video_id, f_lines, f_output>>
  /\ UNCHANGED <<pipelineVars, jsonVars, recordVars, mainVars>>

\* Line 216: the entries are joined.
FormatReturn ==
  /\ f_pc = "loop"
  /\ f_line = Len(f_lines)
  /\ f_output' = Join(markdown_lines, <<"\n">>)
  /\ f_pc' = "done"
  /\ UNCHANGED <<f_transcript, f_video_id, f_lines, f_line, current_speaker,
                 markdown_lines>>
  /\ UNCHANGED <<pipelineVars, jsonVars, recordVars, mainVars>>

InitFormat == FormatInit /\ PipelineOff /\ JsonOff /\ RecordOff /\ MainOff

NextFormat == FormatEnter \/ FormatStep \/ FormatReturn

SpecFormat == InitFormat /\ [][NextFormat]_vars

(***************************************************************************)
(* _format_transcript_as_markdown on a transcript of one line.             *)
(***************************************************************************)
TieBreakInit ==
  /\ f_pc = "start"
  /\ f_transcript \in TieBreakLines
  /\ f_video_id = PyStr(<<"v", "1">>)
  /\ f_lines = <<>>
  /\ f_line = 0
  /\ current_speaker = PyNone
  /\ markdown_lines = <<>>
  /\ f_output = <<>>

InitTieBreak == TieBreakInit /\ PipelineOff /\ JsonOff /\ RecordOff /\ MainOff

SpecTieBreak == InitTieBreak /\ [][NextFormat]_vars

(***************************************************************************)
(* main (src/src/main.py), run at most MaxRuns times.  The session of an   *)
(* agent is the MCPAgent that ClipPilotAgent.create opens and that         *)
(* ClipPilotAgent.close closes.                                            *)
(***************************************************************************)
MainInit ==
  /\ main_pc = "idle"
  /\ run = 0
  /\ agents = <<>>
  /\ close_log = <<>>
  /\ start_raised = FALSE
  /\ exits = <<>>

\* CloseRuns as main would be with close() after the try block instead of in
\* a finally clause: skipped when start raises.
CloseOnlyAfterReturn(raised) == ~raised

\* Lines 31-34 of main.py: the finally clause runs agent.close() whether
\* agent.start() returned or raised.
CloseRuns(raised) == TRUE

\* Lines 21-25: main is entered.
MainEnter ==
  /\ main_pc = "idle"
  /\ run < MaxRuns
  /\ run' = run + 1
  /\ main_pc' = "config"
  /\ UNCHANGED <<agents, close_log, start_raised, exits>>
  /\ UNCHANGED <<pipelineVars, jsonVars, recordVars, formatVars>>

\* Line 27: Config() returns, or raises and main ends with no agent.
MainConfig ==
  /\ main_pc = "config"
  /\ \/ main_pc' = "create" /\ UNCHANGED exits
     \/ main_pc' = "idle" /\ exits' = Append(exits, "config_error")
  /\ UNCHANGED <<run, agents, close_log, start_raised>>
  /\ UNCHANGED <<pipelineVars, jsonVars, recordVars, formatVars>>

\* Line 29 and ClipPilotAgent.create: the model factory or the session may
\* raise, and main ends with no agent; otherwise the agent holds an open
\* session.
MainCreate ==
  /\ main_pc = "create"
  /\ \/ /\ main_pc' = "idle"
        /\ \E e \in {"model_error", "session_error"} : exits' = Append(exits, e)
        /\ UNCHANGED agents
     \/ /\ agents' = Append(agents, [run |-> run, session |-> "open"])
        /\ main_pc' = "started"
        /\ UNCHANGED exits
  /\ UNCHANGED <<run, close_log, start_raised>>
  /\ UNCHANGED <<pipelineVars, jsonVars, recordVars, formatVars>>

\* Lines 31-33: agent.start() returns or raises; the finally clause decides
\* whether close runs before main ends.
MainStart ==
  /\ main_pc = "started"
  /\ \E raised \in BOOLEAN :
       /\ start_raised' = raised
       /\ IF CloseRuns(raised)
          THEN main_pc' = "closing" /\ UNCHANGED exits
          ELSE main_pc' = "idle" /\ exits' = Append(exits, "start_error")
  /\ UNCHANGED <<run, agents, close_log>>
  /\ UNCHANGED <<pipelineVars, jsonVars, recordVars, formatVars>>

\* Line 34 and ClipPilotAgent.close: the session of the agent is closed, and
\* main ends, re-raising what start raised.
MainClose ==
  /\ main_pc = "closing"
  /\ agents' = [agents EXCEPT ![Len(agents)].session = "closed"]
  /\ close_log' = Append(close_log, Len(agents))
  /\ exits' = Append(exits, IF start_raised THEN "start_error" ELSE "ok")
  /\ start_raised' = FALSE
  /\ main_pc' = "idle"
  /\ UNCHANGED run
  /\ UNCHANGED <<pipelineVars, jsonVars, recordVars, formatVars>>

InitMain == MainInit /\ PipelineOff /\ JsonOff /\ RecordOff /\ FormatOff

NextMain == MainEnter \/ MainConfig \/ MainCreate \/ MainStart \/ MainClose

SpecMain == InitMain /\ [][NextMain]_vars

(***************************************************************************)
(* The claims.                                                             *)
(***************************************************************************)
\* The candidates of the cascade in order: the interior of the first
\* json-tagged fence, the bare array of objects, the whole response.
JsonCandidates(response) ==
  LET fm == JsonFenceSearch(response)
      am == BareArraySearch(response)
  IN (IF fm.found THEN <<Slice(response, fm.gs, fm.ge - 1)>> ELSE <<>>)
     \o (IF am.found THEN <<Slice(response, am.start, am.end - 1)>> ELSE <<>>)
     \o <<response>>

\* The candidates that parse as JSON, in order.
ParsingCandidates(response) ==
  SelectSeq(JsonCandidates(response), LAMBDA c : JsonLoads(c).ok)

\* C1: _extract_json_from_response returns the parsed value of the first of
\* the three candidates that exists and parses as JSON, and None only when
\* no candidate parses.
C1_FallThroughCascade ==
  j_pc = "done" =>
    /\ ParsingCandidates(j_response) # <<>>
         => j_result = JsonLoads(ParsingCandidates(j_response)[1]).val
    /\ j_result = PyNone => ParsingCandidates(j_response) = <<>>

\* The id the five rules give, applied in strict priority order.
StatedId(video) ==
  IF video.t # "dict" THEN PyNone
  ELSE IF /\ In(K_id, video)
          /\ Subscript(video, K_id).t = "dict"
          /\ In(K_videoId, Subscript(video, K_id))
  THEN Subscript(Subscript(video, K_id), K_videoId)
  ELSE IF In(K_id, video) /\ Subscript(video, K_id).t = "str"
  THEN Subscript(video, K_id)
  ELSE IF In(K_videoId, video) THEN Subscript(video, K_videoId)
  ELSE IdFromUrl(video)

\* C2: _extract_video_id returns the result of the first of the five rules
\* that applies; a top-level videoId is used whenever the id field is absent
\* or is neither a string nor a mapping that holds videoId.
C2_PriorityOrder == r_pc # "start" => r_id = StatedId(r_video)

\* The records of the loop so far that had an id and a non-empty transcript.
Included == {i \in 1..Len(hist) : hist[i].called /\ hist[i].transcript # <<>>}

\* The included records that carry the title of entry p of the map.
Suppliers(p) == {i \in Included : PyEq(hist[i].title, results[p][1])}

\* What C3 says of size: no records give the empty map, and the map has at
\* most as many entries as records that had an id and a transcript.
SizeWithinIncluded ==
  /\ videos = <<>> => results = <<>>
  /\ Len(results) <= Cardinality(Included)

\* C3 as stated: the map returned by search_and_get_transcripts keeps the
\* search order of the records that supplied its transcripts, also when
\* records share a title.
C3_OrderBySupplier ==
  pc = "returned" =>
    /\ SizeWithinIncluded
    /\ \A p, q \in 1..Len(results) :
         p < q => /\ Suppliers(p) # {} /\ Suppliers(q) # {}
                  /\ Max(Suppliers(p)) < Max(Suppliers(q))

\* C3 as amended: the map returned by search_and_get_transcripts is empty
\* when the search gave no records, has at most as many entries as records
\* with an id and a non-empty transcript, and orders its keys by the first
\* such record that carried each title.
C3_OrderByFirstInsertion ==
  pc = "returned" =>
    /\ SizeWithinIncluded
    /\ \A p, q \in 1..Len(results) :
         p < q => /\ Suppliers(p) # {} /\ Suppliers(q) # {}
                  /\ Min(Suppliers(p)) < Min(Suppliers(q))

\* A map is returned in which a later record replaced the transcript of an
\* earlier one with the same title, ahead of an entry of a record between them.
C3_Witness ==
  /\ pc = "returned"
  /\ \E p, q \in 1..Len(results) :
       /\ p < q
       /\ Cardinality(Suppliers(p)) >= 2
       /\ Suppliers(q) # {}
       /\ Max(Suppliers(p)) > Max(Suppliers(q))

\* C4: no record makes search_and_get_transcripts raise.
C4_NoRecordAbortsBatch == pc # "raised"

\* C5: _extract_video_title returns a non-empty string for every record.
C5_TitleNonEmptyString == r_pc = "done" => r_title.t = "str" /\ r_title.v # <<>>

\* The number of times agent a was closed.
Closes(a) == Cardinality({i \in 1..Len(close_log) : close_log[i] = a})

\* The runs that ended after create had returned an agent.
RunsWithAgent == {i \in 1..Len(exits) : exits[i] \in {"ok", "start_error"}}

\* C6: close is invoked only on agents that create returned, never twice on
\* one, and when main has ended, however it ended, every agent has been
\* closed exactly once and holds no open session.
C6_ClosedExactlyOnce ==
  /\ \A i \in 1..Len(close_log) : close_log[i] \in 1..Len(agents)
  /\ \A a \in 1..Len(agents) : Closes(a) <= 1
  /\ main_pc = "idle" =>
       /\ Len(agents) = Cardinality(RunsWithAgent)
       /\ \A a \in 1..Len(agents) : Closes(a) = 1 /\ agents[a].session = "closed"

\* main has ended once after start returned, once after start raised and
\* once with no agent created.
C6_Witness ==
  /\ main_pc = "idle"
  /\ \E i, j, k \in 1..Len(exits) :
       exits[i] = "ok" /\ exits[j] = "start_error" /\ exits[k] = "session_error"

\* The transcript prompts sent so far.
TranscriptCalls == SelectSeq(oracle_log, LAMBDA c : c.tool = TranscriptTool)

\* C7: search_videos returns at most max_results records, and
\* search_and_get_transcripts fetches at most max_results transcripts and
\* returns at most max_results entries.
C7_MaxResultsBound ==
  /\ pc \in {"loop", "transcript", "returned", "raised"} => Len(videos) <= max_results
  /\ Len(TranscriptCalls) <= max_results
  /\ Len(results) <= max_results

\* The transcript prompts of the records that have an id, in search order.
CallsOwed ==
  LET withId == SelectSeq(videos, LAMBDA v : Truthy(ExtractVideoId(v)))
  IN [i \in 1..Len(withId) |-> Prompt(TranscriptTool, Str(ExtractVideoId(withId[i])))]

\* C8: at most one oracle call is in flight; the first call is the one
\* search call, and when the invocation is over the calls after it are one
\* transcript call for each record with an id, in search order.
C8_OneCallPerRecordInOrder ==
  /\ in_flight \in {0, 1}
  /\ \A i \in 1..Len(oracle_log) : (oracle_log[i].tool = SearchTool) <=> (i = 1)
  /\ pc \in {"returned", "raised"} => Tail(oracle_log) = CallsOwed

\* C9: the keys of the returned map are the titles of the records that had
\* an id and a non-empty transcript, each once; the value of a key is the
\* transcript of the last such record with that title, is not empty, and
\* starts with the heading for the id of that record.
C9_MapContents ==
  pc = "returned" =>
    /\ \A i \in Included : DictHas(results, hist[i].title)
    /\ \A p, q \in 1..Len(results) : p # q => ~PyEq(results[p][1], results[q][1])
    /\ \A p \in 1..Len(results) :
         /\ Suppliers(p) # {}
         /\ results[p][2] = hist[Max(Suppliers(p))].transcript
         /\ results[p][2] # <<>>
         /\ MatchAt(results[p][2], 1, HeadingOpen \o Str(hist[Max(Suppliers(p))].id))

\* A map is returned in which two records with different ids carried the
\* title of one entry, both with a transcript.
C9_Witness ==
  /\ pc = "returned"
  /\ \E p \in 1..Len(results) : \E i, j \in Suppliers(p) :
       i < j /\ hist[i].id # hist[j].id /\ hist[i].transcript # hist[j].transcript

\* The positions just after a time of the form H:MM:SS, HH:MM:SS or MM:SS
\* that starts at position a.
StatedTimeEnds(line, a) ==
  LET d(i) == CharAt(line, i) \in Digit
      c(i) == CharAt(line, i) = ":"
  IN {a + n + 6 : n \in {k \in {1, 2} :
        /\ \A i \in a..(a + k - 1) : d(i)
        /\ c(a + k) /\ d(a + k + 1) /\ d(a + k + 2)
        /\ c(a + k + 3) /\ d(a + k + 4) /\ d(a + k + 5)}}
     \cup {a + 5 : n \in {k \in {2} :
        d(a) /\ d(a + 1) /\ c(a + 2) /\ d(a + 3) /\ d(a + 4)}}

\* The first time token of a line: the position of its opening bracket and
\* of its closing bracket, <<0, 0>> when the line has none.
StatedTimeToken(line) ==
  LET toks == {w \in (1..Len(line)) \X (1..Len(line)) :
                 /\ line[w[1]] \in {"[", "("}
                 /\ w[2] \in StatedTimeEnds(line, w[1] + 1)
                 /\ line[w[2]] \in {"]", ")"}}
  IN IF toks = {} THEN <<0, 0>>
     ELSE CHOOSE w \in toks : \A u \in toks : w[1] <= u[1]

\* C10: a line with no speaker label that holds a bracketed time token
\* H:MM:SS, HH:MM:SS or MM:SS is emitted as the token in bold, a space, and
\* the content after the token.
C10_TimeTokenLineEmitted ==
  (f_pc = "loop" /\ f_line >= 1) =>
    LET line == f_lines[f_line]
        tok == StatedTimeToken(line)
    IN (~SpeakerSearch(line).found /\ tok[1] # 0) =>
         markdown_lines[Len(markdown_lines)] =
           <<"*", "*", "[">> \o Slice(line, tok[1] + 1, tok[2] - 1)
             \o <<"]", "*", "*", " ">> \o Strip(Slice(line, tok[2] + 1, Len(line)))

\* The branch of lines 201-214 that the line of a one-line transcript took,
\* read from what it appended to markdown_lines.
BranchTaken ==
  IF MatchAt(markdown_lines[2], 1, SpeakerHeadingOpen) THEN "speaker"
  ELSE IF MatchAt(markdown_lines[2], 1, <<"*", "*", "[">>) THEN "timestamp"
  ELSE "verbatim"

\* The branch the stated rule gives: the speaker branch when the label
\* matches and either no time token does or the label starts at or before it.
StatedBranch(line) ==
  LET sp == SpeakerSearch(line)
      ts == TimestampSearch(line)
  IN IF sp.found /\ (~ts.found \/ sp.start <= ts.start) THEN "speaker"
     ELSE IF ts.found THEN "timestamp"
     ELSE "verbatim"

\* C11: for every line, the branch _format_transcript_as_markdown takes is
\* the one the at-or-before rule gives; when both patterns match, the
\* speaker branch is taken exactly when the label starts at or before the
\* time token, and the strict comparison of the code decides the same.
C11_TieBreakAgrees ==
  (f_pc = "loop" /\ f_line = 1 /\ Len(f_lines) = 1) =>
    LET line == f_lines[1]
        sp == SpeakerSearch(line)
        ts == TimestampSearch(line)
    IN /\ BranchTaken = StatedBranch(line)
       /\ (sp.found /\ ts.found) =>
            /\ (BranchTaken = "speaker") <=> (sp.start <= ts.start)
            /\ (BranchTaken = "timestamp") <=> ~(sp.start <= ts.start)
            /\ (sp.start < ts.start) <=> (sp.start <= ts.start)

\* A line on which both patterns match has been classified, and it took the
\* speaker branch.
C11_Witness ==
  /\ f_pc = "loop" /\ f_line = 1 /\ Len(f_lines) = 1
  /\ SpeakerSearch(f_lines[1]).found
  /\ TimestampSearch(f_lines[1]).found
  /\ BranchTaken = "speaker"
  /\ current_speaker # PyNone
=============================================================================
